---- MODULE Spec2Model ----
(***************************************************************************)
(* Model of src/src/utils/inference_pipeline.js: the stride alignment      *)
(* helper divStride, the IoU/NMS pair calculateIOU + applyNMS, and the     *)
(* async function inference_pipeline (decode loop, NMS, return).           *)
(*                                                                         *)
(* Numbers.  The JavaScript code computes in IEEE doubles.  The model      *)
(* computes exactly: scores and score thresholds are integers (tenths),    *)
(* IoU values and IoU thresholds are fractions [num, den], and the special *)
(* values a division by zero produces in JavaScript (NaN, +-Infinity) are  *)
(* kept as fractions with den = 0 and compared the way JavaScript compares *)
(* them.  Rounding of the double arithmetic is not modelled.               *)
(***************************************************************************)
EXTENDS Integers, Sequences, FiniteSets

VARIABLES
  \* --- SpecStride: one call of divStride
  stride, width, height, aligned,
  \* --- SpecIoU: one call of calculateIOU
  arg_box1, arg_box2, iou_result,
  \* --- SpecNMS: one call of applyNMS
  boxes, iou_threshold, picked, nms_pc,
  \* --- Spec: invocations of inference_pipeline
  pc, src_mat, div_dims, output0, results, selected_indices,
  filtered_results, config,
  \* history: some invocation was called or resumed while the other awaited
  overlapped

strideVars == <<stride, width, height, aligned>>
iouVars == <<arg_box1, arg_box2, iou_result>>
nmsVars == <<boxes, iou_threshold, picked, nms_pc>>
pipeVars == <<pc, src_mat, div_dims, output0, results, selected_indices,
              filtered_results, config, overlapped>>
vars == <<strideVars, iouVars, nmsVars, pipeVars>>

(***************************************************************************)
(* Bounds of the model.                                                    *)
(***************************************************************************)
MaxStride == 4
MaxDim == 100
MaxDet == 4
MaxCoord == 2
MaxSize == 2
MaxAnchors == 2

(***************************************************************************)
(* divStride (lines 235-247).                                              *)
(***************************************************************************)
\* width % stride >= stride / 2, with the integer division a port to an
\* integer language would make (differs from the code for odd strides).
roundsUpIntDiv(s, d) == d % s >= s \div 2

\* width % stride >= stride / 2: `/` is the real division of JavaScript, so
\* the test is 2 * (d % s) >= s.
roundsUp(s, d) == 2 * (d % s) >= s

\* One dimension of divStride: Math.floor(d / s) is d \div s for d >= 0.
alignDim(s, d) ==
  IF roundsUp(s, d) THEN ((d \div s) + 1) * s ELSE (d \div s) * s

divStride(s, w, h) == <<alignDim(s, w), alignDim(s, h)>>

(***************************************************************************)
(* calculateIOU (lines 101-125).  Boxes are <<x, y, w, h>>.                *)
(***************************************************************************)
Max(a, b) == IF a >= b THEN a ELSE b
Min(a, b) == IF a <= b THEN a ELSE b

\* The early-return test of line 115 written with `<`.
noOverlapStrict(ix1, iy1, ix2, iy2) == ix2 < ix1 \/ iy2 < iy1

\* Line 115: intersect_x2 <= intersect_x1 || intersect_y2 <= intersect_y1.
noOverlap(ix1, iy1, ix2, iy2) == ix2 <= ix1 \/ iy2 <= iy1

\* Line 124 with the intersection left out of the denominator.
unionAreaNoSub(a1, a2, inter) == a1 + a2

\* Line 124: the denominator box1_area + box2_area - intersection.
unionArea(a1, a2, inter) == a1 + a2 - inter

\* The value returned: 0.0 on the early return (num 0, den 1), else the
\* quotient of line 124 kept as a fraction; den = 0 stands for the NaN or
\* Infinity JavaScript would produce.
calculateIOU(box1, box2) ==
  LET x1 == box1[1]  y1 == box1[2]  w1 == box1[3]  h1 == box1[4]
      x2 == box2[1]  y2 == box2[2]  w2 == box2[3]  h2 == box2[4]
      box1_x2 == x1 + w1
      box1_y2 == y1 + h1
      box2_x2 == x2 + w2
      box2_y2 == y2 + h2
      intersect_x1 == Max(x1, x2)
      intersect_y1 == Max(y1, y2)
      intersect_x2 == Min(box1_x2, box2_x2)
      intersect_y2 == Min(box1_y2, box2_y2)
      intersection ==
        (intersect_x2 - intersect_x1) * (intersect_y2 - intersect_y1)
      box1_area == w1 * h1
      box2_area == w2 * h2
  IN IF noOverlap(intersect_x1, intersect_y1, intersect_x2, intersect_y2)
     THEN [num |-> 0, den |-> 1]
     ELSE [num |-> intersection,
           den |-> unionArea(box1_area, box2_area, intersection)]

(***************************************************************************)
(* applyNMS (lines 127-149).  Indices are 0-based as in the code; the      *)
(* sequences of the model are 1-based, so boxes[idx] is bxs[idx + 1].      *)
(***************************************************************************)
\* iou >= iou_threshold: the comparison of line 142 turned around.
iouGeq(iou, t) ==
  IF iou.den = 0 THEN iou.num > 0
  ELSE IF iou.den > 0 THEN iou.num * t.den >= t.num * iou.den
  ELSE iou.num * t.den <= t.num * iou.den

\* Line 142: iou <= iou_threshold.  t is a fraction with t.den > 0.  With
\* den = 0: NaN <= t and Infinity <= t are false, -Infinity <= t is true.
iouLeq(iou, t) ==
  IF iou.den = 0 THEN iou.num < 0
  ELSE IF iou.den > 0 THEN iou.num * t.den <= t.num * iou.den
  ELSE iou.num * t.den >= t.num * iou.den

\* indexes.slice(2): an off-by-one that drops a candidate without comparing.
restSkipOne(indexes) == IF Len(indexes) <= 1 THEN <<>> ELSE Tail(Tail(indexes))

\* Line 137: rest = indexes.slice(1).
rest(indexes) == Tail(indexes)

\* The comparator of line 131 reversed: scores[a] - scores[b].
comesBeforeAsc(scores, a, b) == scores[a + 1] < scores[b + 1]

\* Line 131: the comparator (a, b) => scores[b] - scores[a] is negative,
\* i.e. a sorts strictly before b, when scores[a] > scores[b].
comesBefore(scores, a, b) == scores[a + 1] > scores[b + 1]

\* Array.prototype.sort is stable: idx is inserted behind every element it
\* does not sort strictly before.
RECURSIVE insertSorted(_, _, _)
insertSorted(scores, sorted, idx) ==
  IF sorted = <<>> THEN <<idx>>
  ELSE IF comesBefore(scores, idx, Head(sorted))
       THEN <<idx>> \o sorted
       ELSE <<Head(sorted)>> \o insertSorted(scores, Tail(sorted), idx)

\* Lines 129-131: Array.from(Array(scores.length).keys()) sorted.
RECURSIVE sortIndexes(_, _)
sortIndexes(scores, n) ==
  IF n = 0 THEN <<>>
  ELSE insertSorted(scores, sortIndexes(scores, n - 1), n - 1)

\* Lines 133-146: the while loop, one round per recursion.
RECURSIVE nmsLoop(_, _, _, _)
nmsLoop(bxs, indexes, pick, t) ==
  IF indexes = <<>> THEN pick
  ELSE LET current == indexes[1]
           kept == SelectSeq(rest(indexes),
                     LAMBDA idx : iouLeq(calculateIOU(bxs[current + 1].bbox,
                                                      bxs[idx + 1].bbox), t))
       IN nmsLoop(bxs, kept, Append(pick, current), t)

applyNMS(bxs, scores, t) ==
  nmsLoop(bxs, sortIndexes(scores, Len(scores)), <<>>, t)

\* results.map((r) => r.score), line 93.
scoresOf(dets) == [i \in 1..Len(dets) |-> dets[i].score]

\* selected_indices.map((i) => results[i]), line 96.
selectDetections(dets, sel) == [k \in 1..Len(sel) |-> dets[sel[k] + 1]]

(***************************************************************************)
(* Inputs of SpecStride and SpecNMS.                                       *)
(***************************************************************************)
\* The stride of the program (lines 166, 215).
STRIDE == 32

Strides == (1..MaxStride) \cup {STRIDE}
Dims == 0..MaxDim

\* IoU thresholds: 0.35 (the default of line 127), 0.5, 0.7 and 1.
Thresholds == { [num |-> 7, den |-> 20], [num |-> 1, den |-> 2],
                [num |-> 7, den |-> 10], [num |-> 1, den |-> 1] }

\* Boxes of the drawn lists: four overlapping boxes and a zero-width box.
GridBoxes == { <<1, 0, 6, 3>>, <<1, 0, 6, 2>>, <<0, 0, 6, 2>>, <<2, 0, 6, 2>>,
               <<1, 0, 0, 2>> }
GridScores == {8, 9}
GridDets == [bbox : GridBoxes, score : GridScores]

\* The two boxes of the end-to-end scenario.
ScenarioA == [bbox |-> <<10, 10, 50, 50>>, score |-> 9]
ScenarioB == [bbox |-> <<15, 15, 50, 50>>, score |-> 8]

DetLists ==
  UNION { [1..n -> GridDets] : n \in 0..MaxDet }
    \cup { <<ScenarioA>>, <<ScenarioA, ScenarioB>>, <<ScenarioB, ScenarioA>> }

(***************************************************************************)
(* SpecStride: divStride applied to drawn arguments.                       *)
(***************************************************************************)
pipeIdle ==
  /\ pc = <<>> /\ src_mat = <<>> /\ div_dims = <<>> /\ output0 = <<>>
  /\ results = <<>> /\ selected_indices = <<>> /\ filtered_results = <<>>
  /\ config = [score_threshold |-> 0, iou_threshold |-> [num |-> 0, den |-> 1]]
  /\ overlapped = FALSE

nmsIdle ==
  /\ boxes = <<>> /\ iou_threshold = [num |-> 0, den |-> 1]
  /\ picked = <<>> /\ nms_pc = "idle"

\* iou_result is <<>> until calculateIOU has returned, then <<the value>>.
iouIdle == arg_box1 = <<>> /\ arg_box2 = <<>> /\ iou_result = <<>>

\* aligned is <<>> until divStride has returned its pair.
strideIdle == stride = 0 /\ width = 0 /\ height = 0 /\ aligned = <<>>

InitStride ==
  /\ stride \in Strides
  /\ width \in Dims
  /\ height \in Dims
  /\ aligned = <<>>
  /\ iouIdle
  /\ nmsIdle
  /\ pipeIdle

CallDivStride ==
  /\ aligned = <<>>
  /\ aligned' = divStride(stride, width, height)
  /\ UNCHANGED <<stride, width, height, iouVars, nmsVars, pipeVars>>

SpecStride == InitStride /\ [][CallDivStride]_vars

(***************************************************************************)
(* SpecNMS: applyNMS applied to a drawn list of detections, the way the    *)
(* pipeline calls it (lines 91-95).                                        *)
(***************************************************************************)
InitNMS ==
  /\ boxes \in DetLists
  /\ iou_threshold \in Thresholds
  /\ picked = <<>>
  /\ nms_pc = "input"
  /\ strideIdle
  /\ iouIdle
  /\ pipeIdle

CallApplyNMS ==
  /\ nms_pc = "input"
  /\ picked' = applyNMS(boxes, scoresOf(boxes), iou_threshold)
  /\ nms_pc' = "done"
  /\ UNCHANGED <<boxes, iou_threshold, strideVars, iouVars, pipeVars>>

SpecNMS == InitNMS /\ [][CallApplyNMS]_vars

(***************************************************************************)
(* SpecIoU: calculateIOU applied to a drawn pair of boxes, zero widths and *)
(* heights included.                                                       *)
(***************************************************************************)
IouBoxes == (0..MaxCoord) \X (0..MaxCoord) \X (0..MaxSize) \X (0..MaxSize)

InitIoU ==
  /\ arg_box1 \in IouBoxes
  /\ arg_box2 \in IouBoxes
  /\ iou_result = <<>>
  /\ strideIdle
  /\ nmsIdle
  /\ pipeIdle

CallCalculateIOU ==
  /\ iou_result = <<>>
  /\ iou_result' = <<calculateIOU(arg_box1, arg_box2)>>
  /\ UNCHANGED <<arg_box1, arg_box2, strideVars, nmsVars, pipeVars>>

SpecIoU == InitIoU /\ [][CallCalculateIOU]_vars

(***************************************************************************)
(* inference_pipeline (lines 17-99).  An invocation runs synchronously up  *)
(* to the await of line 44, and synchronously from there to its return:    *)
(* JavaScript runs each part to completion, so invocations interleave only *)
(* at the await.  Every name the function assigns is a const local, so     *)
(* each invocation has its own copy: the variables are functions of the    *)
(* invocation.  The Mats and tensors the function deletes or disposes and  *)
(* the elapsed time it returns beside the detections are not modelled.     *)
(*                                                                         *)
(* Decoded coordinates are products with xRatio = cols / div_width and     *)
(* yRatio = rows / div_height.  They are kept exactly, as numerators over  *)
(* the denominators 2 * div_width (x, width) and 2 * div_height (y,        *)
(* height) that all detections of one invocation share:                    *)
(*   (cx - 0.5 * w) * cols / div_width = (2 * cx - w) * cols / (2 * div_width). *)
(* The quotient of calculateIOU is the same for the numerators as for the  *)
(* values, the common positive factor cancelling.                          *)
(***************************************************************************)
Invocations == {1, 2}
Other(p) == 3 - p

NUM_BBOX_ATTRS == 5
NUM_KEYPOINTS == 17
KEYPOINT_DIMS == 3
Channels == NUM_BBOX_ATTRS + NUM_KEYPOINTS * KEYPOINT_DIMS

\* Lines 211-226: the dimensions the image is resized to.
preProcess_dynamic(mat) == divStride(STRIDE, mat[1], mat[2])

\* predictions.subarray(0, num_predictions * NUM_BBOX_ATTRS)[j], line 57.
bbox_data(out, j) == out.data[j + 1]

\* predictions.subarray(num_predictions * NUM_BBOX_ATTRS)[j], line 58.
keypoints_data(out, j) == out.data[out.dims[3] * NUM_BBOX_ATTRS + j + 1]

\* Line 63 with `<`: an anchor whose score equals the threshold is emitted.
skipsAnchorStrict(score, score_threshold) == score < score_threshold

\* Line 63: if (score <= config.score_threshold) continue.
skipsAnchor(score, score_threshold) == score <= score_threshold

\* Lines 74-82: the keypoints of anchor i.
decodeKeypoints(out, i, mat) ==
  LET n == out.dims[3]
  IN [k \in 1..NUM_KEYPOINTS |->
        LET base_idx == (k - 1) * KEYPOINT_DIMS * n + i
        IN [x |-> 2 * keypoints_data(out, base_idx) * mat[1],
            y |-> 2 * keypoints_data(out, base_idx + n) * mat[2],
            score |-> keypoints_data(out, base_idx + n * 2)]]

\* Lines 62-88: the detection of anchor i.
decodeAnchor(out, i, mat) ==
  LET n == out.dims[3]
  IN [bbox |-> << (2 * bbox_data(out, i) - bbox_data(out, i + n * 2)) * mat[1],
                  (2 * bbox_data(out, i + n) - bbox_data(out, i + n * 3)) * mat[2],
                  2 * bbox_data(out, i + n * 2) * mat[1],
                  2 * bbox_data(out, i + n * 3) * mat[2] >>,
      score |-> bbox_data(out, i + n * 4),
      keypoints |-> decodeKeypoints(out, i, mat)]

\* Lines 61-89: the for loop from anchor i on, acc being results so far.
RECURSIVE decodeLoop(_, _, _, _, _)
decodeLoop(out, i, acc, mat, score_threshold) ==
  IF i >= out.dims[3] THEN acc
  ELSE IF skipsAnchor(bbox_data(out, i + out.dims[3] * 4), score_threshold)
       THEN decodeLoop(out, i + 1, acc, mat, score_threshold)
       ELSE decodeLoop(out, i + 1, Append(acc, decodeAnchor(out, i, mat)),
                       mat, score_threshold)

\* A results array that outlives the call: what the other invocation pushed
\* is still in it.
sharedResults(res, p) == res[Other(p)]

\* Line 60: const results = [], a fresh array for each invocation.
newResults(res, p) == <<>>

(***************************************************************************)
(* Inputs of Spec: images, and the tensors session.run may resolve to.     *)
(***************************************************************************)
\* <<cols, rows>> of the images read by cv.imread: one aligned already, one
\* not (70 x 100 is resized to 64 x 96).  Images with a side below 16, which
\* divStride aligns to 0, are inputs of SpecStride only: what cv.blobFromImage
\* and session.run do with an empty size is outside these sources.
Images == { <<64, 64>>, <<70, 100>> }

\* The anchors the tensors are built from: centre, size, score (tenths).
\* Two boxes that overlap (IoU 2/3), with scores below, at and above the
\* score threshold.
AnchorChoices ==
  { [cx |-> 32, cy |-> 32, w |-> 20, h |-> 20, score |-> 4],
    [cx |-> 32, cy |-> 32, w |-> 20, h |-> 20, score |-> 5],
    [cx |-> 32, cy |-> 32, w |-> 20, h |-> 20, score |-> 6],
    [cx |-> 34, cy |-> 32, w |-> 20, h |-> 16, score |-> 7] }

\* The flat row-major buffer of shape [1, C, N]: channel c of anchor i is at
\* c * N + i.  Keypoint k of an anchor sits k pixels right of its centre.
tensorOf(anchors) ==
  LET n == Len(anchors)
      value(c, a) ==
        CASE c = 0 -> a.cx
          [] c = 1 -> a.cy
          [] c = 2 -> a.w
          [] c = 3 -> a.h
          [] c = 4 -> a.score
          [] OTHER ->
               LET k == (c - NUM_BBOX_ATTRS) \div KEYPOINT_DIMS
                   d == (c - NUM_BBOX_ATTRS) % KEYPOINT_DIMS
               IN CASE d = 0 -> a.cx + k
                    [] d = 1 -> a.cy
                    [] OTHER -> IF k % 2 = 0 THEN 9 ELSE 1
  IN [dims |-> <<1, Channels, n>>,
      data |-> [j \in 1..(Channels * n) |->
                  value((j - 1) \div n, anchors[((j - 1) % n) + 1])]]

AnchorLists == UNION { [1..n -> AnchorChoices] : n \in 0..MaxAnchors }
Tensors == { tensorOf(anchors) : anchors \in AnchorLists }

NoTensor == [dims |-> <<>>, data |-> <<>>]

\* Score threshold 0.5; IoU threshold 0.5 or 0.7.
Configs == { [score_threshold |-> 5, iou_threshold |-> [num |-> 1, den |-> 2]],
             [score_threshold |-> 5, iou_threshold |-> [num |-> 7, den |-> 10]] }

(***************************************************************************)
(* Spec: two invocations of inference_pipeline.                            *)
(***************************************************************************)
Init ==
  /\ pc = [p \in Invocations |-> "idle"]
  /\ src_mat = [p \in Invocations |-> <<>>]
  /\ div_dims = [p \in Invocations |-> <<>>]
  /\ output0 = [p \in Invocations |-> NoTensor]
  /\ results = [p \in Invocations |-> <<>>]
  /\ selected_indices = [p \in Invocations |-> <<>>]
  /\ filtered_results = [p \in Invocations |-> <<>>]
  /\ config \in Configs
  /\ overlapped = FALSE
  /\ strideIdle
  /\ iouIdle
  /\ nmsIdle

\* Lines 17-44: imread, preProcess_dynamic, the ratios, the input tensor,
\* and the call of session.run, whose promise is awaited.
Call(p) ==
  /\ pc[p] = "idle"
  /\ \E img \in Images :
       /\ src_mat' = [src_mat EXCEPT ![p] = img]
       /\ div_dims' = [div_dims EXCEPT ![p] = preProcess_dynamic(img)]
  /\ pc' = [pc EXCEPT ![p] = "awaiting"]
  /\ overlapped' = (overlapped \/ pc[Other(p)] = "awaiting")
  /\ UNCHANGED <<output0, results, selected_indices, filtered_results, config,
                 strideVars, iouVars, nmsVars>>

\* Lines 44-98: session.run resolves to a tensor; the decode loop, applyNMS
\* and the return follow without a further await.
Resume(p) ==
  /\ pc[p] = "awaiting"
  /\ \E out \in Tensors :
       LET res == decodeLoop(out, 0, newResults(results, p), src_mat[p],
                             config.score_threshold)
           sel == applyNMS(res, scoresOf(res), config.iou_threshold)
       IN /\ output0' = [output0 EXCEPT ![p] = out]
          /\ results' = [results EXCEPT ![p] = res]
          /\ selected_indices' = [selected_indices EXCEPT ![p] = sel]
          /\ filtered_results' =
               [filtered_results EXCEPT ![p] = selectDetections(res, sel)]
  /\ pc' = [pc EXCEPT ![p] = "returned"]
  /\ overlapped' = (overlapped \/ pc[Other(p)] = "awaiting")
  /\ UNCHANGED <<src_mat, div_dims, config, strideVars, iouVars, nmsVars>>

Next == \E p \in Invocations : Call(p) \/ Resume(p)

Spec == Init /\ [][Next]_vars

(***************************************************************************)
(* Reference definitions used by the properties: the geometry of two boxes *)
(* with non-negative width and height, independent of calculateIOU.        *)
(***************************************************************************)
Area(b) == b[3] * b[4]

OverlapArea(b1, b2) ==
  LET ow == Min(b1[1] + b1[3], b2[1] + b2[3]) - Max(b1[1], b2[1])
      oh == Min(b1[2] + b1[4], b2[2] + b2[4]) - Max(b1[2], b2[2])
  IN IF ow <= 0 \/ oh <= 0 THEN 0 ELSE ow * oh

UnionOf(b1, b2) == Area(b1) + Area(b2) - OverlapArea(b1, b2)

\* IoU(b1, b2) <= t, with the IoU of an empty union taken as 0.
OverlapWithin(b1, b2, t) ==
  IF UnionOf(b1, b2) = 0 THEN 0 <= t.num
  ELSE OverlapArea(b1, b2) * t.den <= t.num * UnionOf(b1, b2)

FracLeq(a, b) == a.num * b.den <= b.num * a.den
FracLess(a, b) == a.num * b.den < b.num * a.den
One == [num |-> 1, den |-> 1]

SeqRange(q) == { q[k] : k \in 1..Len(q) }
NmsDone == nms_pc = "done"
BoxOf(idx) == boxes[idx + 1].bbox
ScoreOf(idx) == boxes[idx + 1].score
\* idx is processed before jdx: higher score first, equal scores by index.
ProcessedBefore(idx, jdx) ==
  ScoreOf(idx) > ScoreOf(jdx) \/ (ScoreOf(idx) = ScoreOf(jdx) /\ idx < jdx)
KeptCount(t) == Len(applyNMS(boxes, scoresOf(boxes), t))
SameBoxes == \A i, j \in 1..Len(boxes) : boxes[i].bbox = boxes[j].bbox

(***************************************************************************)
(* Properties of applyNMS and calculateIOU (checked under SpecNMS).        *)
(***************************************************************************)

\* C2 (as stated): for a fixed list of detections, a lower IoU threshold
\* never keeps more detections than a higher one.
C2_MonotoneAnyLength ==
  NmsDone =>
    \A t \in Thresholds :
      FracLeq(t, iou_threshold) => KeptCount(t) <= Len(picked)

\* C2 (amended): for a list of at most three detections, a lower IoU
\* threshold never keeps more detections than a higher one.
C2_MonotoneUpToThree ==
  (NmsDone /\ Len(boxes) <= 3) =>
    \A t \in Thresholds :
      FracLeq(t, iou_threshold) => KeptCount(t) <= Len(picked)

\* Three detections for which a lower threshold keeps strictly fewer.
C2_Witness ==
  /\ NmsDone /\ Len(boxes) = 3
  /\ \E t \in Thresholds : FracLess(t, iou_threshold) /\ KeptCount(t) < Len(picked)

\* C4: running applyNMS again, with the same threshold, on the detections
\* kept by a first run keeps every one of them.
C4_Idempotent ==
  NmsDone =>
    LET kept == selectDetections(boxes, picked)
    IN applyNMS(kept, scoresOf(kept), iou_threshold)
         = [k \in 1..Len(kept) |-> k - 1]

\* A first run that removed something and kept at least two detections.
C4_Witness == NmsDone /\ Len(picked) >= 2 /\ Len(picked) < Len(boxes)

\* C5 (as stated): a non-empty list of detections with one common bbox and
\* a threshold below 1 gives exactly one index, of a highest-scored detection.
C5_IdenticalBoxesAny ==
  (NmsDone /\ Len(boxes) >= 1 /\ SameBoxes /\ FracLess(iou_threshold, One)) =>
    /\ Len(picked) = 1
    /\ \A i \in 1..Len(boxes) : ScoreOf(picked[1]) >= boxes[i].score

\* C5 (amended): the same, for a common bbox of positive width and height.
C5_IdenticalBoxesPositive ==
  (/\ NmsDone /\ Len(boxes) >= 1 /\ SameBoxes
   /\ FracLess(iou_threshold, One)
   /\ boxes[1].bbox[3] > 0 /\ boxes[1].bbox[4] > 0) =>
    /\ Len(picked) = 1
    /\ \A i \in 1..Len(boxes) : ScoreOf(picked[1]) >= boxes[i].score

\* Identical boxes of positive area whose best score is not the first one.
C5_Witness ==
  /\ NmsDone /\ Len(boxes) >= 2 /\ SameBoxes
  /\ FracLess(iou_threshold, One)
  /\ boxes[1].bbox[3] > 0 /\ boxes[1].bbox[4] > 0
  /\ boxes[2].score > boxes[1].score
  /\ picked = <<1>>

\* C6: applyNMS returns valid positions of the input, none twice, with
\* non-increasing scores along the returned sequence.
C6_IndicesValidDistinctOrdered ==
  NmsDone =>
    /\ \A k \in 1..Len(picked) : picked[k] \in 0..(Len(boxes) - 1)
    /\ \A k, m \in 1..Len(picked) : k # m => picked[k] # picked[m]
    /\ Len(picked) <= Len(boxes)
    /\ \A k \in 1..(Len(picked) - 1) :
         ScoreOf(picked[k]) >= ScoreOf(picked[k + 1])

\* A result whose first index is not 0 and whose scores strictly decrease.
C6_Witness ==
  /\ NmsDone /\ Len(picked) >= 2
  /\ picked[1] > picked[2]
  /\ ScoreOf(picked[1]) > ScoreOf(picked[2])

\* C9: in descending score order, an index is in the result exactly when
\* its IoU with every index selected before it is at most the threshold;
\* the result lists the selected indices in that order; a single detection
\* is always kept; the end-to-end scenario gives [0] at 0.5, [0, 1] at 0.7.
C9_GreedySelection ==
  NmsDone =>
    /\ \A idx \in 0..(Len(boxes) - 1) :
         (idx \in SeqRange(picked)) <=>
           \A jdx \in SeqRange(picked) :
             ProcessedBefore(jdx, idx) =>
               OverlapWithin(BoxOf(jdx), BoxOf(idx), iou_threshold)
    /\ \A k \in 1..(Len(picked) - 1) : ProcessedBefore(picked[k], picked[k + 1])
    /\ (Len(boxes) = 1 => picked = <<0>>)
    /\ (boxes = <<ScenarioA, ScenarioB>> =>
          /\ iou_threshold = [num |-> 1, den |-> 2] => picked = <<0>>
          /\ iou_threshold = [num |-> 7, den |-> 10] => picked = <<0, 1>>)

\* The scenario at threshold 0.5: the second box is suppressed.
C9_Witness ==
  /\ NmsDone /\ boxes = <<ScenarioA, ScenarioB>>
  /\ iou_threshold = [num |-> 1, den |-> 2] /\ picked = <<0>>

\* C10: calculateIOU never divides by zero, and returns 0 whenever the
\* union area of the two boxes is 0 (checked under SpecIoU).
C10_NoDivisionByZero ==
  iou_result # <<>> =>
    /\ iou_result[1].den # 0
    /\ UnionOf(arg_box1, arg_box2) = 0 => iou_result[1].num = 0

\* Two zero-area boxes at the same place were compared: their union is 0.
C10_Witness ==
  /\ iou_result # <<>> /\ arg_box1 = arg_box2 /\ Area(arg_box1) = 0
  /\ UnionOf(arg_box1, arg_box2) = 0 /\ iou_result[1].num = 0

(***************************************************************************)
(* Properties of divStride (checked under SpecStride).                     *)
(***************************************************************************)
Abs(n) == IF n < 0 THEN -n ELSE n
StrideDone == aligned # <<>>

\* r is the multiple of s nearest to d; of two equally near multiples the
\* upper one (remainder at least half the stride rounds up, else down).
NearestMultiple(s, d, r) ==
  /\ r % s = 0
  /\ \A q \in 0..((d \div s) + 1) : Abs(q * s - d) >= Abs(r - d)
  /\ (2 * (d % s) >= s) => r > d
  /\ (2 * (d % s) < s) => r <= d

\* C1: for positive stride, width and height, each dimension returned by
\* divStride is at least stride (never zero).
C1_NeverBelowStride ==
  (StrideDone /\ stride > 0 /\ width > 0 /\ height > 0) =>
    aligned[1] >= stride /\ aligned[2] >= stride

\* C7: each dimension returned by divStride is the multiple of stride
\* nearest to the input, rounded up when the remainder is at least half the
\* stride and down otherwise; divStride(32, 70, 100) = [64, 96] and
\* divStride(32, 80, 100) = [96, 96].
C7_NearestMultiple ==
  StrideDone =>
    /\ NearestMultiple(stride, width, aligned[1])
    /\ NearestMultiple(stride, height, aligned[2])
    /\ (stride = 32 /\ width = 70 /\ height = 100) => aligned = <<64, 96>>
    /\ (stride = 32 /\ width = 80 /\ height = 100) => aligned = <<96, 96>>

\* divStride(32, 80, 100) has returned: the remainder 16 is exactly half.
C7_Witness ==
  stride = 32 /\ width = 80 /\ height = 100 /\ aligned = <<96, 96>>

(***************************************************************************)
(* Properties of inference_pipeline (checked under Spec).                  *)
(***************************************************************************)
Returned(p) == pc[p] = "returned"
AnchorCount(p) == output0[p].dims[3]
\* The score of anchor i: the element at offset i + 4 * N of the tensor.
AnchorScore(p, i) == output0[p].data[i + 4 * AnchorCount(p) + 1]
Passing(p) ==
  { i \in 0..(AnchorCount(p) - 1) : AnchorScore(p, i) > config.score_threshold }
\* The k-th passing anchor in ascending index order.
KthPassing(p, k) ==
  CHOOSE i \in Passing(p) : Cardinality({ j \in Passing(p) : j < i }) = k - 1
\* The box of anchor i, top-left format, as the numerators the model keeps.
AnchorBox(p, i) ==
  LET n == AnchorCount(p)
      d == output0[p].data
  IN << (2 * d[i + 1] - d[i + 2 * n + 1]) * src_mat[p][1],
        (2 * d[i + n + 1] - d[i + 3 * n + 1]) * src_mat[p][2],
        2 * d[i + 2 * n + 1] * src_mat[p][1],
        2 * d[i + 3 * n + 1] * src_mat[p][2] >>

\* C3: the decode loop emits exactly one detection for each anchor whose
\* score is strictly greater than score_threshold, none for the others, in
\* ascending anchor index order.
C3_ScoreFilterInAnchorOrder ==
  \A p \in Invocations :
    Returned(p) =>
      /\ Len(results[p]) = Cardinality(Passing(p))
      /\ \A k \in 1..Len(results[p]) :
           /\ results[p][k].score = AnchorScore(p, KthPassing(p, k))
           /\ results[p][k].bbox = AnchorBox(p, KthPassing(p, k))

\* An anchor at the threshold was skipped and a later, different anchor
\* above it was emitted.
C3_Witness ==
  \E p \in Invocations :
    /\ Returned(p) /\ AnchorCount(p) = 2
    /\ AnchorScore(p, 0) = config.score_threshold
    /\ AnchorScore(p, 1) > config.score_threshold
    /\ Len(results[p]) = 1
    /\ results[p][1].bbox = AnchorBox(p, 1)
    /\ AnchorBox(p, 1) # AnchorBox(p, 0)

\* What one invocation returns when nothing else runs: a function of its
\* image, of the tensor session.run resolved to, and of config.
SoloRun(mat, out, cfg) ==
  LET res == decodeLoop(out, 0, <<>>, mat, cfg.score_threshold)
      sel == applyNMS(res, scoresOf(res), cfg.iou_threshold)
  IN selectDetections(res, sel)

\* C8: invocations that interleave at the await are independent: each
\* returns the detections it returns when run alone, and an invocation that
\* has not resumed yet holds nothing another one wrote.
C8_InvocationsIndependent ==
  \A p \in Invocations :
    /\ Returned(p) =>
         filtered_results[p] = SoloRun(src_mat[p], output0[p], config)
    /\ ~Returned(p) =>
         /\ output0[p] = NoTensor /\ results[p] = <<>>
         /\ selected_indices[p] = <<>> /\ filtered_results[p] = <<>>
    /\ pc[p] = "idle" => src_mat[p] = <<>> /\ div_dims[p] = <<>>

\* Both invocations returned after overlapping at the await, with different
\* images and tensors and different, non-empty detections.
C8_Witness ==
  /\ Returned(1) /\ Returned(2) /\ overlapped
  /\ src_mat[1] # src_mat[2] /\ output0[1] # output0[2]
  /\ filtered_results[1] # <<>> /\ filtered_results[2] # <<>>
  /\ filtered_results[1] # filtered_results[2]

====
